---- MODULE Spec2Model ----
(***************************************************************************)
(* Model of the store core of src/store.py: the four tables reached        *)
(* through the shared sqlite connection (Products, Storage, StoreSales,    *)
(* OnlineSales), and the StoreApp operations that read and write them.     *)
(* A table is the sequence of its rows in rowid order.  Prices are in      *)
(* hundredths (999 is 9.99).  SaleDate is not modelled: no operation reads *)
(* it back.                                                                *)
(***************************************************************************)
EXTENDS Integers, Sequences, FiniteSets, TLC

VARIABLES Products, Storage, StoreSales, OnlineSales, last, issued, replenished,
          prior, deactivated

vars == <<Products, Storage, StoreSales, OnlineSales, last, issued, replenished,
          prior, deactivated>>

\* ---------------------------------------------------------------- bounds
\* Products created, sale records written (both ledgers together), units in stock.
MaxProducts == 2
MaxSales == 2
MaxStock == 2

\* Arguments of the calls: a valid product and one with an empty name and a
\* negative price (add_new_product has no branch on either); every created
\* ProductID and one that never is; quantities below, at and above zero.
ProductInputs == {<<"Widget", 999>>, <<"", -1>>}
ProductIDs == 1..(MaxProducts + 1)
Quantities == {-1, 0, 1}

\* ---------------------------------------------------------------- helpers
RECURSIVE SeqSum(_)
SeqSum(s) == IF s = <<>> THEN 0 ELSE Head(s) + SeqSum(Tail(s))

SelectQuantities(table, product_id) ==
    LET RECURSIVE Pick(_)
        Pick(t) == IF t = <<>> THEN <<>>
                   ELSE IF Head(t).ProductID = product_id
                        THEN <<Head(t).Quantity>> \o Pick(Tail(t))
                        ELSE Pick(Tail(t))
    IN Pick(table)

SetMax(S) == CHOOSE m \in S : \A x \in S : x <= m

\* The outcome of the last StoreApp call: how it ended (raised or returned),
\* which branch ended it (msg) and what it returned (ret, 0 for None).
Outcome(op, product_id, quantity, name, price, raised, msg, ret) ==
    [op |-> op, pid |-> product_id, qty |-> quantity, name |-> name,
     price |-> price, raised |-> raised, msg |-> msg, ret |-> ret]

\* ---------------------------------------------------------------- schema
\* Storage.ProductID references Products.ProductID, and the connection
\* turns foreign keys on (store.py line 28).
StorageForeignKeyOK(products, product_id) ==
    \E i \in DOMAIN products : products[i].ProductID = product_id

\* ---------------------------------------------------------------- StorageManager
\* lastrowid of an INSERT that names no ProductID: one past the largest rowid.
NextProductID(products) ==
    IF products = <<>> THEN 1
    ELSE SetMax({products[i].ProductID : i \in DOMAIN products}) + 1

add_new_product_Inactive(products, name, price) ==
    Append(products, [ProductID |-> NextProductID(products), ProductName |-> name,
                      Price |-> price, Availability |-> 0])

add_new_product(products, name, price) ==
    Append(products, [ProductID |-> NextProductID(products), ProductName |-> name,
                      Price |-> price, Availability |-> 1])

is_product_active(products, product_id) ==
    \E i \in DOMAIN products :
        products[i].ProductID = product_id /\ products[i].Availability = 1

check_product_exists(products, product_id) ==
    \E i \in DOMAIN products : products[i].ProductID = product_id

SetAvailability(products, product_id, flag) ==
    [i \in DOMAIN products |->
        IF products[i].ProductID = product_id
        THEN [products[i] EXCEPT !.Availability = flag]
        ELSE products[i]]

delete_product_Hard(products, product_id) ==
    SelectSeq(products, LAMBDA row : row.ProductID # product_id)

\* SET Availability = 1 - Availability
delete_product_Toggle(products, product_id) ==
    [i \in DOMAIN products |->
        IF products[i].ProductID = product_id
        THEN [products[i] EXCEPT !.Availability = 1 - @]
        ELSE products[i]]

delete_product(products, product_id) == SetAvailability(products, product_id, 0)

activate_product_NoOp(products, product_id) == products

activate_product(products, product_id) == SetAvailability(products, product_id, 1)

add_product_Overwrite(storage, product_id, quantity) ==
    IF \E i \in DOMAIN storage : storage[i].ProductID = product_id
    THEN [i \in DOMAIN storage |->
            IF storage[i].ProductID = product_id
            THEN [storage[i] EXCEPT !.Quantity = quantity]
            ELSE storage[i]]
    ELSE Append(storage, [ProductID |-> product_id, Quantity |-> quantity])

add_product(storage, product_id, quantity) ==
    IF \E i \in DOMAIN storage : storage[i].ProductID = product_id
    THEN [i \in DOMAIN storage |->
            IF storage[i].ProductID = product_id
            THEN [storage[i] EXCEPT !.Quantity = storage[i].Quantity + quantity]
            ELSE storage[i]]
    ELSE Append(storage, [ProductID |-> product_id, Quantity |-> quantity])

\* The dataclass Product of an inventory row.
Product(product_id, name, price, quantity) ==
    [product_id |-> product_id, name |-> name, price |-> price, quantity |-> quantity]

\* INNER JOIN in place of LEFT JOIN.
RECURSIVE get_inventory_InnerJoin(_, _)
get_inventory_InnerJoin(products, storage) ==
    IF products = <<>> THEN <<>>
    ELSE LET p == Head(products)
             qs == SelectQuantities(storage, p.ProductID)
             joined == [i \in DOMAIN qs |->
                          Product(p.ProductID, p.ProductName, p.Price, qs[i])]
         IN joined \o get_inventory_InnerJoin(Tail(products), storage)

\* Products p LEFT JOIN Storage s with COALESCE(s.Quantity, 0), no ORDER BY:
\* the rows come in the order of the scan of Products.
RECURSIVE get_inventory(_, _)
get_inventory(products, storage) ==
    IF products = <<>> THEN <<>>
    ELSE LET p == Head(products)
             qs == SelectQuantities(storage, p.ProductID)
             joined == IF qs = <<>>
                       THEN <<Product(p.ProductID, p.ProductName, p.Price, 0)>>
                       ELSE [i \in DOMAIN qs |->
                                Product(p.ProductID, p.ProductName, p.Price, qs[i])]
         IN joined \o get_inventory(Tail(products), storage)

\* ---------------------------------------------------------------- StoreManager
\* The result of a record_sale call: the ledger afterwards, whether the call
\* raised, and the branch that ended it.
SaleResult(sales, raised, msg) == [sales |-> sales, raised |-> raised, msg |-> msg]

StoreManager_record_sale_NoQuantityCheck(products, sales, product_id, quantity) ==
    IF ~is_product_active(products, product_id)
    THEN SaleResult(sales, FALSE, "inactive")
    ELSE SaleResult(Append(sales, [ProductID |-> product_id, Quantity |-> quantity]),
                    FALSE, "recorded")

StoreManager_record_sale(products, sales, product_id, quantity) ==
    IF ~is_product_active(products, product_id)
    THEN SaleResult(sales, FALSE, "inactive")
    ELSE IF ~is_product_active(products, product_id)
    THEN SaleResult(sales, TRUE, "inactive")
    ELSE IF quantity <= 0
    THEN SaleResult(sales, FALSE, "quantity")
    ELSE SaleResult(Append(sales, [ProductID |-> product_id, Quantity |-> quantity]),
                    FALSE, "recorded")

\* ---------------------------------------------------------------- OnlineShopManager
OnlineShopManager_record_sale_NoActiveCheck(products, sales, product_id, quantity) ==
    IF ~check_product_exists(products, product_id)
    THEN SaleResult(sales, TRUE, "not_found")
    ELSE IF quantity <= 0
    THEN SaleResult(sales, TRUE, "quantity")
    ELSE SaleResult(Append(sales, [ProductID |-> product_id, Quantity |-> quantity]),
                    FALSE, "recorded")

OnlineShopManager_record_sale(products, sales, product_id, quantity) ==
    IF ~check_product_exists(products, product_id)
    THEN SaleResult(sales, TRUE, "not_found")
    ELSE IF ~is_product_active(products, product_id)
    THEN SaleResult(sales, TRUE, "inactive")
    ELSE IF quantity <= 0
    THEN SaleResult(sales, TRUE, "quantity")
    ELSE SaleResult(Append(sales, [ProductID |-> product_id, Quantity |-> quantity]),
                    FALSE, "recorded")

\* ---------------------------------------------------------------- ReportManager
\* A nullable SQL value: the empty tuple is NULL, <<v>> is the value v.
NULL == <<>>

\* SQL SUM: NULL over no rows.
SqlSum(s) == IF s = <<>> THEN NULL ELSE <<SeqSum(s)>>

COALESCE(v, d) == IF v = NULL THEN d ELSE v[1]

\* ORDER BY p.ProductID
RECURSIVE OrderByProductID(_)
OrderByProductID(rows) ==
    IF rows = <<>> THEN <<>>
    ELSE LET least == CHOOSE i \in DOMAIN rows :
                        \A j \in DOMAIN rows :
                            \/ rows[i].ProductID < rows[j].ProductID
                            \/ (rows[i].ProductID = rows[j].ProductID /\ i <= j)
             rest == [k \in 1..(Len(rows) - 1) |-> IF k < least THEN rows[k] ELSE rows[k + 1]]
         IN <<rows[least]>> \o OrderByProductID(rest)

ReportRow_TotalStoreOnly(p, stock, storeSales, onlineSales) ==
    [ProductID |-> p.ProductID,
     ProductName |-> p.ProductName,
     Price |-> p.Price,
     StorageQuantity |-> COALESCE(stock, 0),
     StoreSalesQuantity |->
        COALESCE(SqlSum(SelectQuantities(storeSales, p.ProductID)), 0),
     OnlineSalesQuantity |->
        COALESCE(SqlSum(SelectQuantities(onlineSales, p.ProductID)), 0),
     TotalSalesQuantity |->
        COALESCE(SqlSum(SelectQuantities(storeSales, p.ProductID)), 0),
     Availability |-> p.Availability]

ReportRow(p, stock, storeSales, onlineSales) ==
    [ProductID |-> p.ProductID,
     ProductName |-> p.ProductName,
     Price |-> p.Price,
     StorageQuantity |-> COALESCE(stock, 0),
     StoreSalesQuantity |->
        COALESCE(SqlSum(SelectQuantities(storeSales, p.ProductID)), 0),
     OnlineSalesQuantity |->
        COALESCE(SqlSum(SelectQuantities(onlineSales, p.ProductID)), 0),
     TotalSalesQuantity |->
        COALESCE(SqlSum(SelectQuantities(storeSales, p.ProductID)), 0)
        + COALESCE(SqlSum(SelectQuantities(onlineSales, p.ProductID)), 0),
     Availability |-> p.Availability]

\* Products p LEFT JOIN Storage s: one row per matching Storage row, and one
\* row with a NULL quantity for a product that has none.
RECURSIVE LeftJoinStorage(_, _, _, _)
LeftJoinStorage(products, storage, storeSales, onlineSales) ==
    IF products = <<>> THEN <<>>
    ELSE LET p == Head(products)
             qs == SelectQuantities(storage, p.ProductID)
             joined == IF qs = <<>>
                       THEN <<ReportRow(p, NULL, storeSales, onlineSales)>>
                       ELSE [i \in DOMAIN qs |->
                                ReportRow(p, <<qs[i]>>, storeSales, onlineSales)]
         IN joined \o LeftJoinStorage(Tail(products), storage, storeSales, onlineSales)

get_sales_report(products, storage, storeSales, onlineSales) ==
    OrderByProductID(LeftJoinStorage(products, storage, storeSales, onlineSales))

\* ---------------------------------------------------------------- StoreApp
\* Optional[Product]: the empty tuple is None, <<p>> is the product p.
None == <<>>

RECURSIVE FirstMatch(_, _)
FirstMatch(inventory, product_id) ==
    IF inventory = <<>> THEN None
    ELSE IF Head(inventory).product_id = product_id THEN <<Head(inventory)>>
    ELSE FirstMatch(Tail(inventory), product_id)

get_product_by_id(products, storage, product_id) ==
    FirstMatch(get_inventory(products, storage), product_id)

\* ---------------------------------------------------------------- state
\* History kept next to the tables: issued, the ProductIDs returned so far;
\* replenished, the sum of the quantities of the replenishments that returned;
\* prior, the Availability the product named by the last call had before the
\* call (-1: none named, or not in the catalog); deactivated, the products of
\* the catalog whose most recent delete_product / activate_product call was
\* delete_product.
AvailabilityOf(products, product_id) ==
    IF check_product_exists(products, product_id)
    THEN (CHOOSE row \in {products[i] : i \in DOMAIN products} :
                row.ProductID = product_id).Availability
    ELSE -1

Init ==
    /\ Products = <<>>
    /\ Storage = <<>>
    /\ StoreSales = <<>>
    /\ OnlineSales = <<>>
    /\ last = Outcome("start", 0, 0, "", 0, FALSE, "none", 0)
    /\ issued = {}
    /\ replenished = [p \in ProductIDs |-> 0]
    /\ prior = -1
    /\ deactivated = {}

StoreApp_add_new_product ==
    \E input \in ProductInputs :
      LET name == input[1]
          price == input[2]
      IN
        /\ Len(Products) < MaxProducts
        /\ Products' = add_new_product(Products, name, price)
        /\ last' = Outcome("add_new_product", 0, 0, name, price, FALSE, "added",
                           NextProductID(Products))
        /\ prior' = -1
        /\ issued' = issued \cup {NextProductID(Products)}
        /\ UNCHANGED <<Storage, StoreSales, OnlineSales, replenished, deactivated>>

StockOf(storage, product_id) == SeqSum(SelectQuantities(storage, product_id))

\* The stock kept within -1..MaxStock: one unit below zero is as far as the
\* model follows a falling quantity.
add_product_to_inventory ==
    \E product_id \in ProductIDs, quantity \in Quantities :
        IF StorageForeignKeyOK(Products, product_id)
        THEN /\ StockOf(Storage, product_id) + quantity \in -1..MaxStock
             /\ Storage' = add_product(Storage, product_id, quantity)
             /\ last' = Outcome("add_product_to_inventory", product_id, quantity, "", 0,
                                FALSE, "added", 0)
             /\ prior' = AvailabilityOf(Products, product_id)
             /\ replenished' = [replenished EXCEPT ![product_id] = @ + quantity]
             /\ UNCHANGED <<Products, StoreSales, OnlineSales, issued, deactivated>>
        ELSE /\ last' = Outcome("add_product_to_inventory", product_id, quantity, "", 0,
                                TRUE, "integrity", 0)
             /\ prior' = -1
             /\ UNCHANGED <<Products, Storage, StoreSales, OnlineSales, issued,
                            replenished, deactivated>>

StorageManager_delete_product ==
    \E product_id \in ProductIDs :
        /\ Products' = delete_product(Products, product_id)
        /\ last' = Outcome("delete_product", product_id, 0, "", 0, FALSE, "inactive", 0)
        /\ prior' = AvailabilityOf(Products, product_id)
        /\ deactivated' = IF check_product_exists(Products, product_id)
                          THEN deactivated \cup {product_id} ELSE deactivated
        /\ UNCHANGED <<Storage, StoreSales, OnlineSales, issued, replenished>>

StorageManager_activate_product ==
    \E product_id \in ProductIDs :
        /\ Products' = activate_product(Products, product_id)
        /\ last' = Outcome("activate_product", product_id, 0, "", 0, FALSE, "active", 0)
        /\ prior' = AvailabilityOf(Products, product_id)
        /\ deactivated' = deactivated \ {product_id}
        /\ UNCHANGED <<Storage, StoreSales, OnlineSales, issued, replenished>>

record_store_sale_Decrement ==
    \E product_id \in ProductIDs, quantity \in Quantities :
        LET r == StoreManager_record_sale(Products, StoreSales, product_id, quantity)
        IN /\ Len(r.sales) + Len(OnlineSales) <= MaxSales
           /\ StoreSales' = r.sales
           /\ Storage' = IF r.msg = "recorded"
                         THEN add_product(Storage, product_id, -quantity)
                         ELSE Storage
           /\ last' = Outcome("record_store_sale", product_id, quantity, "", 0,
                              r.raised, r.msg, 0)
           /\ prior' = AvailabilityOf(Products, product_id)
           /\ UNCHANGED <<Products, OnlineSales, issued, replenished, deactivated>>

record_store_sale ==
    \E product_id \in ProductIDs, quantity \in Quantities :
        LET r == StoreManager_record_sale(Products, StoreSales, product_id, quantity)
        IN /\ Len(r.sales) + Len(OnlineSales) <= MaxSales
           /\ StoreSales' = r.sales
           /\ last' = Outcome("record_store_sale", product_id, quantity, "", 0,
                              r.raised, r.msg, 0)
           /\ prior' = AvailabilityOf(Products, product_id)
           /\ UNCHANGED <<Products, Storage, OnlineSales, issued, replenished, deactivated>>

record_online_sale ==
    \E product_id \in ProductIDs, quantity \in Quantities :
        LET r == OnlineShopManager_record_sale(Products, OnlineSales, product_id, quantity)
        IN /\ Len(StoreSales) + Len(r.sales) <= MaxSales
           /\ OnlineSales' = r.sales
           /\ last' = Outcome("record_online_sale", product_id, quantity, "", 0,
                              r.raised, r.msg, 0)
           /\ prior' = AvailabilityOf(Products, product_id)
           /\ UNCHANGED <<Products, Storage, StoreSales, issued, replenished, deactivated>>

display_sales_report ==
    /\ last' = Outcome("get_sales_report", 0, 0, "", 0, FALSE, "report",
                       Len(get_sales_report(Products, Storage, StoreSales, OnlineSales)))
    /\ prior' = -1
    /\ UNCHANGED <<Products, Storage, StoreSales, OnlineSales, issued, replenished, deactivated>>

display_inventory ==
    /\ last' = Outcome("get_inventory", 0, 0, "", 0, FALSE, "inventory",
                       Len(get_inventory(Products, Storage)))
    /\ prior' = -1
    /\ UNCHANGED <<Products, Storage, StoreSales, OnlineSales, issued, replenished, deactivated>>

StoreApp_get_product_by_id ==
    \E product_id \in ProductIDs :
        LET found == get_product_by_id(Products, Storage, product_id)
        IN /\ last' = Outcome("get_product_by_id", product_id, 0, "", 0, FALSE, "product",
                              IF found = None THEN 0 ELSE found[1].product_id)
           /\ prior' = AvailabilityOf(Products, product_id)
           /\ UNCHANGED <<Products, Storage, StoreSales, OnlineSales, issued, replenished, deactivated>>

Next ==
    \/ StoreApp_add_new_product
    \/ add_product_to_inventory
    \/ StorageManager_delete_product
    \/ StorageManager_activate_product
    \/ record_store_sale
    \/ record_online_sale
    \/ display_sales_report
    \/ display_inventory
    \/ StoreApp_get_product_by_id

Spec == Init /\ [][Next]_vars

\* ================================================================ properties
SaleOps == {"record_store_sale", "record_online_sale"}

ExistingIDs(products) == {products[i].ProductID : i \in DOMAIN products}

\* C1: a sale call on either channel with quantity <= 0, an unknown product or
\* a deactivated product is turned down and both ledgers are, after the call,
\* exactly what they were before it.
C1_RejectedSaleLeavesLedgers ==
    [][(/\ last'.op \in SaleOps
        /\ \/ last'.qty <= 0
           \/ ~check_product_exists(Products, last'.pid)
           \/ ~is_product_active(Products, last'.pid))
       => (/\ StoreSales' = StoreSales
           /\ OnlineSales' = OnlineSales
           /\ last'.msg \in {"not_found", "inactive", "quantity"})]_vars

\* A sale of a product with records in both ledgers, turned down after the
\* product was deactivated.
C1_Witness ==
    /\ last.op \in SaleOps
    /\ check_product_exists(Products, last.pid)
    /\ ~is_product_active(Products, last.pid)
    /\ last.msg = "inactive"
    /\ SelectQuantities(StoreSales, last.pid) # <<>>
    /\ SelectQuantities(OnlineSales, last.pid) # <<>>

\* C2: a store sale of a product that was never created fails with a not-found
\* error and one of a deactivated product with an inactive-product error: the
\* call raises, it does not return as a successful call does.
C2_StoreSaleFailureIsRaised ==
    /\ (last.op = "record_store_sale" /\ ~check_product_exists(Products, last.pid))
          => (last.raised /\ last.msg = "not_found")
    /\ (/\ last.op = "record_store_sale"
        /\ check_product_exists(Products, last.pid)
        /\ ~is_product_active(Products, last.pid))
          => (last.raised /\ last.msg = "inactive")

\* C3: on both channels a sale checks existence, then the active flag, then
\* the quantity, and reports the first check that fails.
C3_SaleValidationOrder ==
    last.op \in SaleOps =>
        last.msg = IF ~check_product_exists(Products, last.pid) THEN "not_found"
                   ELSE IF ~is_product_active(Products, last.pid) THEN "inactive"
                   ELSE IF last.qty <= 0 THEN "quantity"
                   ELSE "recorded"

\* C4: adding a product with a non-empty name and a price >= 0 returns an ID
\* that no earlier call returned, and right after the call the product exists
\* and is active.
C4_AddReturnsFreshActiveID ==
    [][(last'.op = "add_new_product" /\ last'.name # "" /\ last'.price >= 0)
       => (/\ ~last'.raised
           /\ last'.ret \notin issued
           /\ check_product_exists(Products', last'.ret)
           /\ is_product_active(Products', last'.ret))]_vars

\* A second product added after the first one was deactivated.
C4_Witness ==
    /\ last.op = "add_new_product"
    /\ last.name # "" /\ last.price >= 0
    /\ last.ret = 2
    /\ ~is_product_active(Products, 1)
    /\ is_product_active(Products, 2)

\* C5: adding a product with an empty name or a negative price raises a
\* validation error and leaves the catalog as it was.
C5_InvalidProductRejected ==
    [][(last'.op = "add_new_product" /\ (last'.name = "" \/ last'.price < 0))
       => (last'.raised /\ last'.msg = "validation" /\ Products' = Products)]_vars

\* C6: replenishing a product of the catalog with a quantity <= 0 raises a validation error and leaves
\* the stock table as it was.
C6_NonPositiveReplenishRejected ==
    [][(/\ last'.op = "add_product_to_inventory"
        /\ check_product_exists(Products, last'.pid)
        /\ last'.qty <= 0)
       => (last'.raised /\ last'.msg = "validation" /\ Storage' = Storage)]_vars

\* C7: for an existing product and q > 0, replenishing creates the stock record
\* with q when there is none and adds q to it otherwise, changes no other
\* product's record, and two replenishments by q1 and q2 leave the table that
\* one by q1 + q2 leaves.
C7_ReplenishAccumulates ==
    [][(/\ last'.op = "add_product_to_inventory"
        /\ check_product_exists(Products, last'.pid)
        /\ last'.qty > 0)
       => (/\ ~last'.raised
           /\ SelectQuantities(Storage', last'.pid) =
                 IF SelectQuantities(Storage, last'.pid) = <<>>
                 THEN <<last'.qty>>
                 ELSE <<SelectQuantities(Storage, last'.pid)[1] + last'.qty>>
           /\ \A other \in ProductIDs \ {last'.pid} :
                 SelectQuantities(Storage', other) = SelectQuantities(Storage, other)
           /\ \A q2 \in 1..MaxStock :
                 add_product(Storage', last'.pid, q2)
                    = add_product(Storage, last'.pid, last'.qty + q2))]_vars

\* A replenishment that added to a record already there, next to another
\* product's record.
C7_Witness ==
    /\ last.op = "add_product_to_inventory"
    /\ ~last.raised
    /\ last.qty > 0
    /\ StockOf(Storage, last.pid) > last.qty
    /\ \E other \in ExistingIDs(Products) \ {last.pid} :
            SelectQuantities(Storage, other) # <<>>

\* C8: whatever the arguments of the calls, no stock record has a quantity
\* below zero.
C8_StockNeverNegative ==
    \A i \in DOMAIN Storage : Storage[i].Quantity >= 0

\* C9: the report has exactly one row for each product ever created; a
\* deactivated product keeps its row, with the flag 0, and a product with no
\* stock record and no sale has stock, store, online and total all 0.
C9_ReportRowPerProduct ==
  LET Report == get_sales_report(Products, Storage, StoreSales, OnlineSales) IN
    /\ Len(Report) = Cardinality(issued)
    /\ {Report[i].ProductID : i \in DOMAIN Report} = issued
    /\ ExistingIDs(Products) = issued
    /\ \A i \in DOMAIN Report :
        /\ (Report[i].Availability = 1) <=> is_product_active(Products, Report[i].ProductID)
        /\ (/\ ~\E k \in DOMAIN Storage : Storage[k].ProductID = Report[i].ProductID
            /\ ~\E k \in DOMAIN StoreSales : StoreSales[k].ProductID = Report[i].ProductID
            /\ ~\E k \in DOMAIN OnlineSales : OnlineSales[k].ProductID = Report[i].ProductID)
           => (/\ Report[i].StorageQuantity = 0
               /\ Report[i].StoreSalesQuantity = 0
               /\ Report[i].OnlineSalesQuantity = 0
               /\ Report[i].TotalSalesQuantity = 0)

\* A report of two products: a deactivated one with sales, and one with no
\* stock record and no sale.
C9_Witness ==
    /\ last.op = "get_sales_report"
    /\ last.ret = 2
    /\ \E a, b \in issued :
        /\ ~is_product_active(Products, a)
        /\ SelectQuantities(StoreSales, a) # <<>>
        /\ is_product_active(Products, b)
        /\ SelectQuantities(Storage, b) = <<>>
        /\ SelectQuantities(StoreSales, b) = <<>>
        /\ SelectQuantities(OnlineSales, b) = <<>>

RECURSIVE LedgerTotal(_, _, _)
LedgerTotal(ledger, product_id, n) ==
    IF n = 0 THEN 0
    ELSE LedgerTotal(ledger, product_id, n - 1)
         + (IF ledger[n].ProductID = product_id THEN ledger[n].Quantity ELSE 0)

\* The report of the catalog after add_new_product("Widget", 9.99),
\* add_product_to_inventory(1, 10), record_store_sale(1, 3) and
\* record_online_sale(1, 2).
WidgetReport ==
    LET products == add_new_product(<<>>, "Widget", 999)
        storage == add_product(<<>>, 1, 10)
        storeSales == StoreManager_record_sale(products, <<>>, 1, 3).sales
        onlineSales == OnlineShopManager_record_sale(products, <<>>, 1, 2).sales
    IN get_sales_report(products, storage, storeSales, onlineSales)

\* C10: each product's report row carries its name and price, the sum of its
\* successful replenishments as stock, the sums of its store and online sale
\* records, their total, and its current flag; the rows are in ascending
\* ProductID order; the Widget example gives the one row
\* (1, Widget, 9.99, 10, 3, 2, 5, active).
C10_ReportRowValues ==
  LET Report == get_sales_report(Products, Storage, StoreSales, OnlineSales) IN
    /\ \A i \in DOMAIN Report :
        LET row == Report[i]
        IN /\ \E k \in DOMAIN Products :
                /\ Products[k].ProductID = row.ProductID
                /\ Products[k].ProductName = row.ProductName
                /\ Products[k].Price = row.Price
                /\ Products[k].Availability = row.Availability
           /\ row.StorageQuantity = replenished[row.ProductID]
           /\ row.StoreSalesQuantity = LedgerTotal(StoreSales, row.ProductID, Len(StoreSales))
           /\ row.OnlineSalesQuantity = LedgerTotal(OnlineSales, row.ProductID, Len(OnlineSales))
           /\ row.TotalSalesQuantity = row.StoreSalesQuantity + row.OnlineSalesQuantity
    /\ \A i, j \in DOMAIN Report : i < j => Report[i].ProductID < Report[j].ProductID
    /\ WidgetReport = <<[ProductID |-> 1, ProductName |-> "Widget", Price |-> 999,
                         StorageQuantity |-> 10, StoreSalesQuantity |-> 3,
                         OnlineSalesQuantity |-> 2, TotalSalesQuantity |-> 5,
                         Availability |-> 1]>>

\* A report of two products in which the first was replenished twice and sold
\* on both channels.
C10_Witness ==
  LET Report == get_sales_report(Products, Storage, StoreSales, OnlineSales) IN
    /\ last.op = "get_sales_report"
    /\ Len(Report) = 2
    /\ Report[1].ProductID = 1
    /\ Report[1].StorageQuantity = 2
    /\ Report[1].StoreSalesQuantity = 1
    /\ Report[1].OnlineSalesQuantity = 1
    /\ Report[1].TotalSalesQuantity = 2
    /\ Report[1].Availability = 1
    /\ Report[2].StorageQuantity = 1

\* C11: a sale call on either channel, recorded or turned down, leaves the
\* stock table exactly as it was, also when more is sold than is in stock.
C11_SaleLeavesInventory ==
    [][last'.op \in SaleOps => Storage' = Storage]_vars

\* A recorded sale of more units than the product's stock record holds.
C11_Witness ==
    /\ last.op \in SaleOps
    /\ last.msg = "recorded"
    /\ SelectQuantities(Storage, last.pid) # <<>>
    /\ last.qty > StockOf(Storage, last.pid)

\* C13: every record of either ledger has a quantity > 0 and the ProductID of
\* a product of the catalog, and a ledger only grows by one record at its end,
\* for a product that is active when the record is appended.
LedgerRecordsValid(ledger, products) ==
    \A i \in DOMAIN ledger :
        /\ ledger[i].Quantity > 0
        /\ check_product_exists(products, ledger[i].ProductID)

AppendedWhileActive(before, after, products) ==
    after # before =>
        /\ Len(after) = Len(before) + 1
        /\ SubSeq(after, 1, Len(before)) = before
        /\ is_product_active(products, after[Len(after)].ProductID)

C13_LedgerRecordsValid ==
    [][/\ LedgerRecordsValid(StoreSales', Products')
       /\ LedgerRecordsValid(OnlineSales', Products')
       /\ AppendedWhileActive(StoreSales, StoreSales', Products)
       /\ AppendedWhileActive(OnlineSales, OnlineSales', Products)]_vars

\* Both ledgers hold a record of a product that has since been deactivated.
C13_Witness ==
    \E product_id \in ExistingIDs(Products) :
        /\ ~is_product_active(Products, product_id)
        /\ SelectQuantities(StoreSales, product_id) # <<>>
        /\ SelectQuantities(OnlineSales, product_id) # <<>>

\* C14: the inventory listing has exactly one row for every product of the
\* catalog, active or not, with the quantity of its stock record, or 0 when it
\* has none; listing and lookup change no table; and the lookup of an id
\* returns a product, the one with that id, exactly when the id is in the
\* catalog, and None otherwise.
ReadOps == {"get_inventory", "get_product_by_id"}

C14_InventoryListsCatalog ==
    [][last'.op \in ReadOps =>
        LET inventory == get_inventory(Products, Storage)
        IN /\ UNCHANGED <<Products, Storage, StoreSales, OnlineSales>>
           /\ Len(inventory) = Len(Products)
           /\ \A k \in DOMAIN Products :
                \E i \in DOMAIN inventory :
                    /\ inventory[i].product_id = Products[k].ProductID
                    /\ inventory[i].name = Products[k].ProductName
                    /\ inventory[i].price = Products[k].Price
                    /\ \/ \E n \in DOMAIN Storage :
                            /\ Storage[n].ProductID = Products[k].ProductID
                            /\ Storage[n].Quantity = inventory[i].quantity
                       \/ /\ ~\E n \in DOMAIN Storage :
                                Storage[n].ProductID = Products[k].ProductID
                          /\ inventory[i].quantity = 0
                    /\ \A j \in DOMAIN inventory :
                            inventory[j].product_id = inventory[i].product_id => j = i
           /\ \A product_id \in ProductIDs :
                LET found == get_product_by_id(Products, Storage, product_id)
                IN IF product_id \in ExistingIDs(Products)
                   THEN found # None /\ found[1].product_id = product_id
                   ELSE found = None
           /\ last'.op = "get_product_by_id" =>
                last'.ret = IF last'.pid \in ExistingIDs(Products) THEN last'.pid ELSE 0]_vars

\* The lookup of a deactivated product that has no stock record, in a catalog
\* where another product has one.
C14_Witness ==
    /\ last.op = "get_product_by_id"
    /\ last.ret = last.pid
    /\ last.pid \in ExistingIDs(Products)
    /\ ~is_product_active(Products, last.pid)
    /\ SelectQuantities(Storage, last.pid) = <<>>
    /\ \E other \in ExistingIDs(Products) : StockOf(Storage, other) > 0

\* C12: delete_product on a product that is already inactive, activate_product
\* on one that is already active, and either of them on an id that is not in
\* the catalog return without an error and leave every table as it was (no
\* product is created).
FlipOps == {"delete_product", "activate_product"}

C12_FlipsIdempotent ==
    [][(/\ last'.op \in FlipOps
        /\ \/ ~check_product_exists(Products, last'.pid)
           \/ (last'.op = "delete_product" /\ ~is_product_active(Products, last'.pid))
           \/ (last'.op = "activate_product" /\ is_product_active(Products, last'.pid)))
       => (/\ ~last'.raised
           /\ UNCHANGED <<Products, Storage, StoreSales, OnlineSales>>)]_vars

\* delete_product just called on a product that was inactive before the call,
\* in a catalog with stock and sales.
C12_Witness ==
    /\ last.op = "delete_product"
    /\ prior = 0
    /\ check_product_exists(Products, last.pid)
    /\ ~is_product_active(Products, last.pid)
    /\ Storage # <<>>
    /\ StoreSales # <<>>

\* C15: a sale of a product of the catalog with a quantity > 0 appends exactly
\* one record, with that product and quantity, to the ledger of its channel
\* and none to the other when the product's most recent flip was
\* activate_product or it was never flipped, and is turned down, both ledgers
\* unchanged, when it was delete_product; activate_product leaves the product
\* active whatever came before; delete_product leaves stock and both ledgers
\* as they were.
C15_SaleFollowsLastFlip ==
    [][/\ (/\ last'.op \in SaleOps
           /\ check_product_exists(Products, last'.pid)
           /\ last'.qty > 0)
          => LET record == [ProductID |-> last'.pid, Quantity |-> last'.qty]
                 own == IF last'.op = "record_store_sale" THEN StoreSales ELSE OnlineSales
                 ownAfter == IF last'.op = "record_store_sale" THEN StoreSales' ELSE OnlineSales'
                 other == IF last'.op = "record_store_sale" THEN OnlineSales ELSE StoreSales
                 otherAfter == IF last'.op = "record_store_sale" THEN OnlineSales' ELSE StoreSales'
             IN IF last'.pid \notin deactivated
                THEN /\ last'.msg = "recorded"
                     /\ ownAfter = Append(own, record)
                     /\ otherAfter = other
                ELSE /\ last'.msg = "inactive"
                     /\ ownAfter = own
                     /\ otherAfter = other
       /\ (last'.op = "activate_product" /\ check_product_exists(Products, last'.pid))
          => is_product_active(Products', last'.pid)
       /\ last'.op = "delete_product"
          => UNCHANGED <<Storage, StoreSales, OnlineSales>>]_vars

\* A sale turned down on one channel for a product that was sold on the other
\* channel before it was deactivated, and that still has its stock record.
C15_Witness ==
    /\ last.op = "record_online_sale"
    /\ last.qty > 0
    /\ last.msg = "inactive"
    /\ last.pid \in deactivated
    /\ SelectQuantities(StoreSales, last.pid) # <<>>
    /\ SelectQuantities(OnlineSales, last.pid) = <<>>
    /\ StockOf(Storage, last.pid) > 0
====
